---- MODULE Spec2Model ----
(***************************************************************************)
(* Authentication and authorization core of HavenHomes.                    *)
(*                                                                         *)
(* The model follows server/replitAuth.ts (src/unnamed/part_001), its      *)
(* Google twin src/server/googleAuth.ts, the role middleware               *)
(* (src/unnamed/part_002) and the routes that register them                *)
(* (src/unnamed/part_003).                                                 *)
(*                                                                         *)
(* A request is a slot of `req`.  Arriving, it loads its own copy of the   *)
(* session's passport user from the session store (express-session and     *)
(* passport.session()); every await of the code is a step boundary, so     *)
(* requests interleave at the awaits; the response-ending step writes the  *)
(* copy back to the store when the request modified it.                    *)
(*                                                                         *)
(* Conventions: JavaScript `undefined` is 0 for numbers and token ids      *)
(* (the code tests them for falsiness only), and NoClaims for `claims`.    *)
(* The clock counts whole token-lifetime units from 1, and advances only   *)
(* between requests: handling a request is short against the lifetime of   *)
(* a token.                                                                *)
(***************************************************************************)
EXTENDS Integers, FiniteSets, Sequences, TLC

\* ------------------------------------------------------------- bounds
MaxTime == 3
MaxLife == 1
MaxSub == 1
MaxSid == 2
MaxTokens == 3
MaxLogins == 2
NumReqs == 2
MaxEmail == 2
MaxUser == 3
MaxProp == 1
MaxMsgs == 2
MaxFav == 2

Subs == 1..MaxSub
Sids == 1..MaxSid
Reqs == 1..NumReqs
Emails == 1..MaxEmail

\* the ids of the users table: the subjects that log in, and further users
\* of the marketplace
UserIds == 1..MaxUser
PropIds == 1..MaxProp

\* ------------------------------------------------------------- data
Roles == {"buyer", "seller", "agent", "admin"}

DefaultRole == "buyer"

\* the role claim an identity provider may put into the id token: the code
\* never reads it, so one value, the most privileged, stands for all
RoleClaims == {"admin"}

NoClaims == [sub |-> 0, exp |-> 0, jti |-> 0, role |-> "none", email |-> 0]

AnonUser ==
  [k |-> "anon", claims |-> NoClaims, access_token |-> 0,
   refresh_token |-> 0, expires_at |-> 0]

NoSession == [AnonUser EXCEPT !.k = "absent"]

\* `const user = {}` of verify
EmptyUser == [AnonUser EXCEPT !.k = "user"]

\* no row in users; a column holding SQL NULL is 0 (email) or "NULL" (text)
NoRow == [role |-> "none", email |-> 0, phone |-> "NULL", bio |-> "NULL"]

\* the column defaults of a row inserted without the column
DefaultRow == [NoRow EXCEPT !.role = DefaultRole]

\* A token endpoint response: the id token's claims (NoClaims when the
\* response carries no id token), the access token and the refresh token
\* (0 when the response carries none).
TokenResponse(n, sub, exp, hasId, hasRt, rc, email) ==
  [claims |-> IF hasId THEN [sub |-> sub, exp |-> exp, jti |-> n, role |-> rc,
                             email |-> email]
                       ELSE NoClaims,
   access_token |-> n,
   refresh_token |-> IF hasRt THEN n ELSE 0]

\* a faulty updateUserSession that keeps the refresh token it has when the
\* response brings none
updateUserSessionKeepsToken(user, tokens) ==
  [user EXCEPT !.claims = tokens.claims,
               !.access_token = tokens.access_token,
               !.refresh_token = IF tokens.refresh_token = 0 THEN @
                                 ELSE tokens.refresh_token,
               !.expires_at = tokens.claims.exp]

updateUserSession(user, tokens) ==
  [user EXCEPT !.claims = tokens.claims,
               !.access_token = tokens.access_token,
               !.refresh_token = tokens.refresh_token,
               !.expires_at = tokens.claims.exp]

\* the middleware registered in front of a route's handler
Chain(route) ==
  CASE route = "authUser" -> <<"isAuthenticated">>
    [] route = "createProperty" -> <<"isAuthenticated", "requireSeller">>
    [] route = "agentOnly" -> <<"requireAgent">>
    [] route = "patchUser" -> <<"isAuthenticated">>
    [] OTHER -> << >>

GatedRoutes == {"authUser", "createProperty", "agentOnly"}

allowedRoles(mw) ==
  CASE mw = "requireAgent" -> {"agent"}
    [] mw = "requireSeller" -> {"seller", "agent"}
    [] mw = "requireAdmin" -> {"admin"}
    [] OTHER -> {}

\* A request body after express.json(): kind "object" with, for each key the
\* model follows, its value or "ABSENT" when the body has no such key;
\* "NULL" is JSON null and "NUM" a JSON number.  kind "none" is a body that
\* is missing or not an object.
BodyKeys == {"phone", "bio", "role"}

NoBody == [kind |-> "none", phone |-> "ABSENT", bio |-> "ABSENT", role |-> "ABSENT"]

Bodies ==
  {NoBody} \cup [kind : {"object"}, phone : {"ABSENT", "hi", "NUM"},
                 bio : {"ABSENT", "hi", "NULL"},
                 role : {"ABSENT", "admin"}]

\* typeof v === 'string'
isString(v) == v \in {"hi", "admin"}

\* A row of properties, of which the model keeps the owner and one column
\* of content; creator is not a column: it records who created the row.
NoProp == [agentId |-> 0, title |-> "none", creator |-> 0]

Titles == {"a", "b"}

\* the tables properties, messages and favorites, empty
NoMarket ==
  [props |-> [p \in PropIds |-> NoProp], msgs |-> {}, favs |-> {}, nextFav |-> 1]

\* The body of a marketplace request after its schema's safeParse: valid
\* tells whether it parsed, and each key holds the parsed value, "ABSENT"
\* or 0 when the body has no such key.
NoInput ==
  [valid |-> FALSE, title |-> "ABSENT", agentId |-> 0, senderId |-> 0,
   recipientId |-> 0, userId |-> 0, propertyId |-> 0]

IdleReq ==
  [pc |-> "idle", route |-> "none", sid0 |-> 0, sid |-> 0, user |-> AnonUser,
   stage |-> 0, status |-> 0, loc |-> "", refreshes |-> 0, handled |-> 0,
   rres |-> "none", err |-> "none", late |-> FALSE, dirty |-> FALSE,
   exp0 |-> 0, io |-> "none", required |-> {}, current |-> "none",
   host |-> "none", strategy |-> "none", loggedOut |-> FALSE,
   body |-> NoBody, msg |-> "none", upserts |-> 0, sent |-> 0,
   input |-> NoInput, param |-> 0, out |-> {}]

VARIABLES now, store, users, nextSid, issued, revokedUpTo, oidc, req,
          account, deploy, market

vars == <<now, store, users, nextSid, issued, revokedUpTo, oidc, req,
          account, deploy, market>>

\* the hostnames a request may carry
Hosts == {"app.example", "other.example", "localhost", "127.0.0.1", "::1"}

\* NODE_ENV and REPLIT_DOMAINS of a deployment; REPLIT_DOMAINS must be set
Deployments ==
  [env : {"production", "development"},
   domains : (SUBSET {"app.example", "localhost", "127.0.0.1"}) \ {{}}]

\* the process has started under deployment d on the users table db:
\* setupAuth has discovered the provider, no session is stored
Booted(d, db) ==
  /\ now = 1
  /\ store = [s \in Sids |-> NoSession]
  /\ users = db
  /\ nextSid = 1
  /\ issued = 0
  /\ revokedUpTo = 0
  /\ oidc = "ok"
  /\ req = [r \in Reqs |-> IdleReq]
  /\ account = [u \in Subs |-> 1]
  /\ deploy = d
  /\ market = NoMarket

\* the process has started under deployment d, nobody has ever logged in
Started(d) == Booted(d, [u \in UserIds |-> NoRow])

Init == Started([env |-> "production", domains |-> {"app.example"}])

\* ------------------------------------------------------------- helpers
\* res.status(st) / res.redirect(loc): the response is sent
Respond(q, st, loc) == [q EXCEPT !.pc = "done", !.status = st, !.loc = loc]

\* next(err): Express's error handler answers 500
NextErr(q, e) == [Respond(q, 500, "") EXCEPT !.err = e]

\* a faulty save that writes the fields of the user one by one and leaves
\* the refresh token of the stored session in place
SaveSessionByField(st, q) ==
  IF q.dirty /\ q.sid # 0
  THEN [st EXCEPT ![q.sid] =
          [q.user EXCEPT !.refresh_token =
             IF st[q.sid].k = "user" THEN st[q.sid].refresh_token ELSE @]]
  ELSE st

\* express-session at the end of a response: a session the request
\* modified is written back to the store under the request's session id
SaveSession(st, q) ==
  IF q.dirty /\ q.sid # 0 THEN [st EXCEPT ![q.sid] = q.user] ELSE st

\* passport.session(): req.user of a request presenting cookie `sid`
LoadUser(st, sid) ==
  IF sid # 0 /\ st[sid].k = "user" THEN st[sid] ELSE AnonUser

\* Faulty variants of isAuthenticated, to see what the gate's properties
\* tell apart: one that takes a session for expired at the very second of
\* its expiry, one that tries to refresh without holding a refresh token.
isAuthenticatedEarly(user, t) ==
  IF user.k # "user" \/ user.expires_at = 0 THEN "401"
  ELSE IF t < user.expires_at THEN "next"
  ELSE IF user.refresh_token = 0 THEN "401"
  ELSE "refresh"

isAuthenticatedBlind(user, t) ==
  IF user.k # "user" \/ user.expires_at = 0 THEN "401"
  ELSE IF t <= user.expires_at THEN "next"
  ELSE "refresh"

\* isAuthenticated up to its first await: "401", "next" or "refresh"
isAuthenticated(user, t) ==
  IF user.k # "user" \/ user.expires_at = 0 THEN "401"
  ELSE IF t <= user.expires_at THEN "next"
  ELSE IF user.refresh_token = 0 THEN "401"
  ELSE "refresh"

\* The middleware of q's route from index q.stage on, as far as it runs
\* without awaiting: isAuthenticated answers 401, starts a refresh, or calls
\* next(); at route level next() is the next middleware or the handler,
\* inside requireRole it is the callback that looks the role up.
RECURSIVE Run(_, _)
Run(q, t) ==
  IF q.stage > Len(Chain(q.route)) THEN [q EXCEPT !.pc = "handler"]
  ELSE LET g == isAuthenticated(q.user, t) IN
       IF g = "401" THEN Respond(q, 401, "")
       ELSE IF g = "refresh" THEN [q EXCEPT !.pc = "refreshing"]
       ELSE IF Chain(q.route)[q.stage] = "isAuthenticated"
       THEN Run([q EXCEPT !.stage = @ + 1], t)
       ELSE [q EXCEPT !.pc = "role"]

\* the gate called next() after its refresh
GateNext(q, t) ==
  IF Chain(q.route)[q.stage] = "isAuthenticated"
  THEN Run([q EXCEPT !.stage = @ + 1], t)
  ELSE [q EXCEPT !.pc = "role"]

\* a faulty catch block that logs the session out
refreshFailedClears(q, why) ==
  [Respond(q, 401, "") EXCEPT !.rres = why, !.user = AnonUser, !.dirty = TRUE]

\* a faulty catch block that answers 401 and calls next() all the same
refreshFailedContinues(q, why) ==
  [Respond(q, 401, "") EXCEPT !.rres = why, !.pc = "handler"]

\* the catch block of isAuthenticated
refreshFailed(q, why) == [Respond(q, 401, "") EXCEPT !.rres = why]

\* the try block of isAuthenticated after a granted refresh
refreshGranted(q, tokens, t) ==
  GateNext([q EXCEPT !.user = updateUserSession(q.user, tokens),
                     !.dirty = TRUE, !.rres = "ok"], t)

\* memoized getOidcConfig(): the memo after the call, given whether the
\* memo's maxAge has elapsed and whether the issuer can be reached; the
\* call resolves iff the memo then holds a discovered configuration.
\* memoizee keeps the promise the function returned, a rejected one too,
\* until maxAge.
getOidcConfig(memo, expired, reachable) ==
  IF expired THEN (IF reachable THEN "ok" ELSE "failed") ELSE memo

\* the store after a step of request slot r: written when the step sent
\* the response
StoreAfter(st, q) == IF q.pc = "done" THEN SaveSession(st, q) ELSE st

\* ------------------------------------------------------------- requests
\* a request arrived after a response if that response is already sent
\* when the request arrives: the rejected request is then still on record
\* in another slot
arrivedAfterRejection(r, sid) ==
  \E o \in Reqs \ {r} :
    /\ req[o].pc = "done" /\ req[o].route \in GatedRoutes
    /\ req[o].rres = "rejected" /\ req[o].status = 401
    /\ req[o].sid0 = sid /\ sid # 0

\* a request arrived after a logout of its session if the response of that
\* logout is already sent: the logout is then still on record in another
\* slot
arrivedAfterLogout(r, sid) ==
  \E o \in Reqs \ {r} :
    /\ req[o].pc = "done" /\ req[o].route = "logout"
    /\ req[o].sid0 = sid /\ sid # 0

\* Requests on different sessions share nothing but the user table, so
\* slot 1 serves any request and a further slot serves a request that runs
\* concurrently with slot 1's on the same session.
mayPresent(r, sid) ==
  r = 1 \/ (/\ req[1].pc \notin {"idle", "done"}
            /\ req[1].sid0 = sid /\ sid # 0)

Arrive(r) ==
  /\ req[r].pc = "idle"
  /\ \E sid \in 0..(nextSid - 1), route \in GatedRoutes :
       LET u == LoadUser(store, sid) IN
       /\ mayPresent(r, sid)
       /\ req' = [req EXCEPT ![r] =
                 Run([IdleReq EXCEPT !.pc = "mw", !.route = route, !.sid0 = sid,
                                     !.sid = IF sid # 0 /\ store[sid].k # "absent"
                                             THEN sid ELSE 0,
                                     !.user = u, !.stage = 1,
                                     !.late = arrivedAfterRejection(r, sid),
                                     !.loggedOut = arrivedAfterLogout(r, sid),
                                     !.exp0 = u.expires_at], now)]
  /\ UNCHANGED <<now, store, users, nextSid, issued, revokedUpTo, oidc,
               account, deploy, market>>

\* getOidcConfig() throws: no refresh call is made
RefreshNoConfig(r) ==
  /\ req[r].pc = "refreshing"
  /\ \E expired \in BOOLEAN :
       /\ getOidcConfig(oidc, expired, FALSE) # "ok"
       /\ oidc' = getOidcConfig(oidc, expired, FALSE)
  /\ req' = [req EXCEPT ![r] = refreshFailed(req[r], "nodiscovery")]
  /\ store' = StoreAfter(store, req'[r])
  /\ UNCHANGED <<now, users, nextSid, issued, revokedUpTo,
               account, deploy, market>>

\* getOidcConfig resolves in the refresh steps below
ConfigResolves ==
  /\ \E expired \in BOOLEAN : getOidcConfig(oidc, expired, TRUE) = "ok"
  /\ oidc' = "ok"

\* refreshTokenGrant throws: the provider rejects a revoked token, or the
\* call times out
RefreshFail(r) ==
  /\ req[r].pc = "refreshing"
  /\ ConfigResolves
  /\ \E why \in {"rejected", "timeout"} :
       LET q == [req[r] EXCEPT !.refreshes = @ + 1] IN
       /\ why = "rejected" => q.user.refresh_token <= revokedUpTo
       /\ req' = [req EXCEPT ![r] = refreshFailed(q, why)]
  /\ store' = StoreAfter(store, req'[r])
  /\ UNCHANGED <<now, users, nextSid, issued, revokedUpTo,
               account, deploy, market>>

\* refreshTokenGrant resolves: the provider answers with new tokens, with
\* or without an id token, with or without a refresh token; when it
\* rotates refresh tokens the one just used (and any older one) is revoked
RefreshOk(r) ==
  /\ req[r].pc = "refreshing"
  /\ ConfigResolves
  /\ issued < MaxTokens
  /\ req[r].user.refresh_token > revokedUpTo
  /\ \E hasId \in BOOLEAN, hasRt \in BOOLEAN, rotate \in BOOLEAN,
        life \in 1..MaxLife :
       LET q == [req[r] EXCEPT !.refreshes = @ + 1]
           sub == q.user.claims.sub
           tokens == TokenResponse(issued + 1, sub, now + life, hasId, hasRt,
                                   q.user.claims.role,
                                   IF sub \in Subs THEN account[sub] ELSE 0) IN
       /\ rotate => hasRt
       /\ req' = [req EXCEPT ![r] = refreshGranted(q, tokens, now)]
       /\ revokedUpTo' = IF rotate THEN q.user.refresh_token ELSE revokedUpTo
  /\ issued' = issued + 1
  /\ store' = StoreAfter(store, req'[r])
  /\ UNCHANGED <<now, users, nextSid,
               account, deploy, market>>

\* Faulty variants of requireRole: one that reads the role from the claims
\* of the session, one that lets the request through when the lookup fails.
requireRoleFromClaims(q, db, storageOk, t) ==
  LET allowed == allowedRoles(Chain(q.route)[q.stage])
      userRole == IF q.user.claims.role = "none" THEN DefaultRole
                  ELSE q.user.claims.role IN
  IF q.user.claims = NoClaims \/ ~storageOk
  THEN [Respond(q, 500, "") EXCEPT !.err = "storage"]
  ELSE IF userRole \notin allowed
  THEN [Respond(q, 403, "") EXCEPT !.required = allowed, !.current = userRole]
  ELSE Run([q EXCEPT !.stage = @ + 1, !.current = userRole], t)

requireRoleFailOpen(q, db, storageOk, t) ==
  LET allowed == allowedRoles(Chain(q.route)[q.stage])
      row == db[q.user.claims.sub]
      userRole == IF ~storageOk THEN "agent"
                  ELSE IF row.role = "none" THEN DefaultRole ELSE row.role IN
  IF q.user.claims = NoClaims
  THEN [Respond(q, 500, "") EXCEPT !.err = "claims"]
  ELSE IF userRole \notin allowed
  THEN [Respond(q, 403, "") EXCEPT !.required = allowed, !.current = userRole]
  ELSE Run([q EXCEPT !.stage = @ + 1, !.current = userRole], t)

\* the callback requireRole hands to isAuthenticated
requireRole(q, db, storageOk, t) ==
  LET allowed == allowedRoles(Chain(q.route)[q.stage])
      row == db[q.user.claims.sub]
      userRole == IF row.role = "none" THEN DefaultRole ELSE row.role IN
  IF q.user.claims = NoClaims \/ ~storageOk
  THEN [Respond(q, 500, "") EXCEPT
          !.err = IF q.user.claims = NoClaims THEN "claims" ELSE "storage"]
  ELSE IF userRole \notin allowed
  THEN [Respond(q, 403, "") EXCEPT !.required = allowed, !.current = userRole]
  ELSE Run([q EXCEPT !.stage = @ + 1, !.current = userRole], t)

RoleCheck(r) ==
  /\ req[r].pc = "role"
  /\ \E storageOk \in BOOLEAN :
       LET q == [req[r] EXCEPT !.io = IF storageOk THEN "ok" ELSE "error"] IN
       req' = [req EXCEPT ![r] = requireRole(q, users, storageOk, now)]
  /\ store' = StoreAfter(store, req'[r])
  /\ UNCHANGED <<now, users, nextSid, issued, revokedUpTo, oidc,
               account, deploy, market>>

\* storage.getUser: the id of the row selected, 0 when there is none
getUser(db, id) == IF id \in UserIds /\ db[id] # NoRow THEN id ELSE 0

\* a faulty handler of GET /api/auth/user that answers 200 without a record
handlerStatusNo404(q, db, storageOk) ==
  IF q.user.claims = NoClaims \/ ~storageOk THEN 500
  ELSE CASE q.route = "createProperty" ->
              IF db[q.user.claims.sub].role \notin {"agent", "seller"}
              THEN 403 ELSE 201
         [] OTHER -> 200

\* the route handlers, as far as the session and the user record decide
\* their answer
handlerStatus(q, db, storageOk) ==
  LET row == db[q.user.claims.sub] IN
  IF q.user.claims = NoClaims \/ ~storageOk THEN 500
  ELSE CASE q.route = "authUser" -> IF row.role = "none" THEN 404 ELSE 200
         [] q.route = "createProperty" ->
              IF row.role \notin {"agent", "seller"} THEN 403 ELSE 201
         [] OTHER -> 200

Handler(r) ==
  /\ req[r].pc = "handler"
  /\ req[r].route \in GatedRoutes
  /\ \E storageOk \in BOOLEAN :
       LET q == [req[r] EXCEPT !.io = IF storageOk THEN "ok" ELSE "error"]
           st == handlerStatus(q, users, storageOk) IN
       req' = [req EXCEPT ![r] =
                 [Respond(q, st, "")
                    EXCEPT !.handled = @ + 1,
                           !.sent = IF q.route = "authUser" /\ st = 200
                                    THEN getUser(users, q.user.claims.sub)
                                    ELSE 0]]
  /\ store' = StoreAfter(store, req'[r])
  /\ UNCHANGED <<now, users, nextSid, issued, revokedUpTo, oidc,
               account, deploy, market>>

\* ------------------------------------------------------------- storage
\* a faulty upsertUser of replitAuth that copies the role claim too
loginUserDataWithRole(claims) ==
  [id |-> claims.sub, email |-> claims.email, role |-> claims.role]

\* the object upsertUser of replitAuth builds from the claims: id and the
\* profile claims (of which the model keeps email), nothing else
loginUserData(claims) == [id |-> claims.sub, email |-> claims.email]

\* column f of a row after `set {...userData}`: the value userData gives,
\* or the value it had when userData does not name the column
setColumn(row, userData, f) ==
  IF f \in DOMAIN userData THEN userData[f] ELSE row[f]

\* storage.upsertUser: insert(users).values(userData), and on a conflict of
\* the id update the row with set {...userData, updatedAt}
upsertUser(db, userData) ==
  LET old == db[userData.id]
      row == IF old = NoRow THEN DefaultRow ELSE old IN
  [db EXCEPT ![userData.id] =
     [role |-> setColumn(row, userData, "role"),
      email |-> setColumn(row, userData, "email"),
      phone |-> setColumn(row, userData, "phone"),
      bio |-> setColumn(row, userData, "bio")]]

\* ------------------------------------------------------------- profile
\* PATCH /api/auth/user arrives with a body
ArrivePatch(r) ==
  /\ req[r].pc = "idle"
  /\ \E sid \in 0..(nextSid - 1), body \in Bodies :
       LET u == LoadUser(store, sid) IN
       /\ mayPresent(r, sid)
       /\ req' = [req EXCEPT ![r] =
                 Run([IdleReq EXCEPT !.route = "patchUser", !.sid0 = sid,
                                     !.sid = IF sid # 0 /\ store[sid].k # "absent"
                                             THEN sid ELSE 0,
                                     !.user = u, !.stage = 1, !.body = body,
                                     !.exp0 = u.expires_at], now)]
  /\ UNCHANGED <<now, store, users, nextSid, issued, revokedUpTo, oidc,
               account, deploy, market>>

allowedFields == {"phone", "bio"}

\* a faulty filter without the allow-list
filteredUpdatesAll(body) ==
  {key \in BodyKeys :
     /\ body[key] # "ABSENT"
     /\ isString(body[key]) \/ body[key] = "NULL"}

\* the keys of filteredUpdates: the keys of the body that are allowed and
\* whose value is a string or null
filteredUpdates(body) ==
  {key \in BodyKeys \cap allowedFields :
     /\ body[key] # "ABSENT"
     /\ isString(body[key]) \/ body[key] = "NULL"}

\* a faulty handler that upserts without looking whether a field is left
patchUserNoCheck(q, db, storageOk) ==
  LET keys == filteredUpdates(q.body)
      userData == [f \in {"id"} \cup keys |->
                     IF f = "id" THEN q.user.claims.sub ELSE q.body[f]] IN
  IF q.user.claims = NoClaims \/ ~storageOk
  THEN [q |-> [Respond(q, 500, "") EXCEPT !.msg = "Failed to update user"],
        db |-> db]
  ELSE IF q.body.kind # "object"
  THEN [q |-> [Respond(q, 400, "") EXCEPT !.msg = "Invalid input data"],
        db |-> db]
  ELSE [q |-> [Respond(q, 200, "") EXCEPT !.upserts = @ + 1],
        db |-> upsertUser(db, userData)]

\* the handler of PATCH /api/auth/user: the request and the user table
\* after it
patchUser(q, db, storageOk) ==
  LET keys == filteredUpdates(q.body)
      userData == [f \in {"id"} \cup keys |->
                     IF f = "id" THEN q.user.claims.sub ELSE q.body[f]] IN
  IF q.user.claims = NoClaims
  THEN [q |-> [Respond(q, 500, "") EXCEPT !.msg = "Failed to update user"],
        db |-> db]
  ELSE IF q.body.kind # "object"
  THEN [q |-> [Respond(q, 400, "") EXCEPT !.msg = "Invalid input data"],
        db |-> db]
  ELSE IF keys = {}
  THEN [q |-> [Respond(q, 400, "") EXCEPT !.msg = "No valid fields to update"],
        db |-> db]
  ELSE IF ~storageOk
  THEN [q |-> [Respond(q, 500, "") EXCEPT !.msg = "Failed to update user"],
        db |-> db]
  ELSE [q |-> [Respond(q, 200, "") EXCEPT !.upserts = @ + 1],
        db |-> upsertUser(db, userData)]

PatchHandler(r) ==
  /\ req[r].pc = "handler"
  /\ req[r].route = "patchUser"
  /\ \E storageOk \in BOOLEAN :
       LET q == [req[r] EXCEPT !.io = IF storageOk THEN "ok" ELSE "error",
                               !.handled = @ + 1]
           out == patchUser(q, users, storageOk) IN
       /\ req' = [req EXCEPT ![r] = out.q]
       /\ users' = out.db
  /\ store' = StoreAfter(store, req'[r])
  /\ UNCHANGED <<now, nextSid, issued, revokedUpTo, oidc, account, deploy, market>>

\* the account holder changes the e-mail address at the identity provider
ChangeProfile ==
  /\ \E u \in Subs, e \in Emails :
       /\ account[u] # e
       /\ account' = [account EXCEPT ![u] = e]
  /\ UNCHANGED <<now, store, users, nextSid, issued, revokedUpTo, oidc, req,
               deploy, market>>

\* the response has been delivered: the slot is free again
Finish(r) ==
  /\ req[r].pc = "done"
  /\ req' = [req EXCEPT ![r] = IdleReq]
  /\ UNCHANGED <<now, store, users, nextSid, issued, revokedUpTo, oidc,
               account, deploy, market>>

\* ------------------------------------------------------------- environment
Tick ==
  /\ now < MaxTime
  /\ \A r \in Reqs : req[r].pc = "idle"
  /\ now' = now + 1
  /\ UNCHANGED <<store, users, nextSid, issued, revokedUpTo, oidc, req,
               account, deploy, market>>

\* the user withdraws the application's access at the provider: every
\* refresh token issued so far is revoked
Revoke ==
  /\ revokedUpTo < issued
  /\ revokedUpTo' = issued
  /\ UNCHANGED <<now, store, users, nextSid, issued, oidc, req,
               account, deploy, market>>

\* an administrator changes the role column of an existing row
SetRole ==
  /\ \E u \in Subs, role \in Roles :
       /\ users[u].role \notin {"none", role}
       /\ users' = [users EXCEPT ![u].role = role]
  /\ UNCHANGED <<now, store, nextSid, issued, revokedUpTo, oidc, req,
               account, deploy, market>>

\* storage.deleteUser
deleteUser ==
  /\ \E u \in Subs :
       /\ users[u] # NoRow
       /\ users' = [users EXCEPT ![u] = NoRow]
  /\ UNCHANGED <<now, store, nextSid, issued, revokedUpTo, oidc, req,
               account, deploy, market>>

\* ------------------------------------------------------------- login
\* GET /api/callback arrives: passport.authenticate starts the code exchange
CallbackArrive(r) ==
  /\ req[r].pc = "idle"
  /\ \E sid \in 0..(nextSid - 1) :
       /\ mayPresent(r, sid)
       /\ req' = [req EXCEPT ![r] =
                 [IdleReq EXCEPT !.pc = "cb_exchange", !.route = "callback",
                                 !.sid0 = sid,
                                 !.sid = IF sid # 0 /\ store[sid].k # "absent"
                                         THEN sid ELSE 0,
                                 !.user = LoadUser(store, sid)]]
  /\ UNCHANGED <<now, store, users, nextSid, issued, revokedUpTo, oidc,
               account, deploy, market>>

\* the authenticate callback runs with err (the provider or the exchange
\* failed) or without a user (authentication failed)
CallbackNoUser(r) ==
  /\ req[r].pc = "cb_exchange"
  /\ \E err \in BOOLEAN :
       req' = [req EXCEPT ![r] =
                 IF err THEN NextErr(req[r], "exchange")
                 ELSE [Respond(req[r], 302, "/api/login") EXCEPT !.err = "nouser"]]
  /\ UNCHANGED <<now, store, users, nextSid, issued, revokedUpTo, oidc,
               account, deploy, market>>

\* the exchange succeeds and verify runs: updateUserSession on a fresh
\* user, then upsertUser; when the upsert throws the callback gets err
CallbackVerify(r) ==
  /\ req[r].pc = "cb_exchange"
  /\ issued < MaxLogins
  /\ \E sub \in Subs, hasRt \in BOOLEAN, life \in 1..MaxLife,
        rc \in RoleClaims, upsertOk \in BOOLEAN :
       LET tokens == TokenResponse(issued + 1, sub, now + life, TRUE, hasRt, rc,
                                   account[sub])
           user == updateUserSession(EmptyUser, tokens) IN
       IF upsertOk
       THEN /\ users' = upsertUser(users, loginUserData(tokens.claims))
            /\ req' = [req EXCEPT ![r] =
                         [req[r] EXCEPT !.pc = "cb_regen", !.user = user,
                                        !.upserts = @ + 1]]
       ELSE /\ users' = users
            /\ req' = [req EXCEPT ![r] = NextErr(req[r], "upsert")]
  /\ issued' = issued + 1
  /\ UNCHANGED <<now, store, nextSid, revokedUpTo, oidc,
               account, deploy, market>>

\* verify of googleAuth on a token set without claims(): updateUserSession
\* takes {} for the claims, so the user has neither subject nor expires_at;
\* the upsert, given no id, inserts a row under a generated id that is
\* nobody's subject, or throws
CallbackVerifyNoClaims(r) ==
  /\ req[r].pc = "cb_exchange"
  /\ issued < MaxLogins
  /\ \E hasRt \in BOOLEAN, upsertOk \in BOOLEAN :
       LET tokens == TokenResponse(issued + 1, 0, 0, FALSE, hasRt, "none", 0)
           user == updateUserSession(EmptyUser, tokens) IN
       req' = [req EXCEPT ![r] =
                 IF upsertOk
                 THEN [req[r] EXCEPT !.pc = "cb_regen", !.user = user,
                                     !.upserts = @ + 1]
                 ELSE NextErr(req[r], "upsert")]
  /\ issued' = issued + 1
  /\ UNCHANGED <<now, store, users, nextSid, revokedUpTo, oidc,
               account, deploy, market>>

\* a faulty regenerate that keeps the session the request came with
regenerateInPlace(q, n) == [q EXCEPT !.pc = "cb_login"]

\* req.session.regenerate succeeded: the request continues on session n
regenerate(q, n) == [q EXCEPT !.sid = n, !.pc = "cb_login"]

CallbackRegen(r) ==
  /\ req[r].pc = "cb_regen"
  /\ \/ /\ nextSid <= MaxSid
        /\ req' = [req EXCEPT ![r] = regenerate(req[r], nextSid)]
        /\ store' = IF req[r].sid # 0
                    THEN [store EXCEPT ![req[r].sid] = NoSession] ELSE store
        /\ nextSid' = nextSid + 1
     \/ /\ req' = [req EXCEPT ![r] = NextErr(req[r], "regen")]
        /\ UNCHANGED <<store, nextSid>>
  /\ UNCHANGED <<now, users, issued, revokedUpTo, oidc,
               account, deploy, market>>

\* req.logIn puts the user into the session of the request
CallbackLogin(r) ==
  /\ req[r].pc = "cb_login"
  /\ \/ req' = [req EXCEPT ![r] = [req[r] EXCEPT !.pc = "cb_save", !.dirty = TRUE]]
     \/ req' = [req EXCEPT ![r] = NextErr(req[r], "login")]
  /\ UNCHANGED <<now, store, users, nextSid, issued, revokedUpTo, oidc,
               account, deploy, market>>

\* the callback of req.session.save: replitAuth ignores its argument,
\* googleAuth passes a save error on
afterSave(v, q, saveErr) ==
  IF saveErr /\ v = "google" THEN NextErr(q, "save")
  ELSE [Respond(q, 302, "/") EXCEPT !.err = IF saveErr THEN "save" ELSE "none"]

\* req.session.save, then the response; when the save failed the store may
\* still take the write express-session makes at the end of the response
CallbackSave(v, r) ==
  /\ req[r].pc = "cb_save"
  /\ \E saveErr \in BOOLEAN, late \in BOOLEAN :
       /\ late => saveErr
       /\ req' = [req EXCEPT ![r] = afterSave(v, req[r], saveErr)]
       /\ store' = IF saveErr /\ ~late THEN store ELSE SaveSession(store, req[r])
  /\ UNCHANGED <<now, users, nextSid, issued, revokedUpTo, oidc,
               account, deploy, market>>

\* ------------------------------------------------------------- login
\* name.includes('localhost') || name.includes('127.0.0.1'), over Hosts
mentionsLocal(h) == h \in {"localhost", "127.0.0.1"}

\* the hostnames setupAuth registers a strategy replitauth:<host> for
registered(d) ==
  d.domains \cup (IF d.env # "production" THEN {"localhost", "127.0.0.1"} ELSE {})

\* the host of the strategy GET /api/login authenticates with
selectStrategy(d, reqHostname) ==
  LET hostname == IF reqHostname = "::1" THEN "127.0.0.1" ELSE reqHostname
      possibleStrategies == <<hostname, "localhost", "127.0.0.1">>
      found == {i \in 1..3 : \/ possibleStrategies[i] \in d.domains
                             \/ mentionsLocal(possibleStrategies[i])}
      first == CHOOSE i \in found : \A j \in found : i <= j IN
  IF d.env # "production" /\ hostname \notin d.domains
  THEN (IF found = {} THEN "localhost" ELSE possibleStrategies[first])
  ELSE possibleStrategies[1]

\* GET /api/login: passport.authenticate redirects to the provider, or
\* passes an error on when no strategy of that name is registered
Login(r) ==
  /\ req[r].pc = "idle"
  /\ \E h \in Hosts :
       LET strategy == selectStrategy(deploy, h)
           q == [IdleReq EXCEPT !.route = "login", !.host = h,
                                !.strategy = strategy] IN
       req' = [req EXCEPT ![r] =
                 IF strategy \in registered(deploy)
                 THEN Respond(q, 302, "provider")
                 ELSE NextErr(q, "strategy")]
  /\ UNCHANGED <<now, store, users, nextSid, issued, revokedUpTo, oidc,
               account, deploy, market>>

\* the host of the strategy GET /api/callback authenticates with:
\* `replitauth:${req.hostname}`, the hostname as it came
callbackStrategy(reqHostname) == reqHostname

\* GET /api/callback on any hostname: passport.authenticate starts the code
\* exchange, or passes an error on when no strategy of that name is
\* registered
CallbackOn(r) ==
  /\ req[r].pc = "idle"
  /\ \E h \in Hosts :
       LET strategy == callbackStrategy(h)
           q == [IdleReq EXCEPT !.route = "callback", !.host = h,
                                !.strategy = strategy] IN
       req' = [req EXCEPT ![r] =
                 IF strategy \in registered(deploy)
                 THEN [q EXCEPT !.pc = "cb_exchange"]
                 ELSE NextErr(q, "strategy")]
  /\ UNCHANGED <<now, store, users, nextSid, issued, revokedUpTo, oidc,
               account, deploy, market>>

\* ------------------------------------------------------------- logout
\* The response of GET /api/logout once req.logout is through, given whether
\* the provider's metadata holds an end_session_endpoint.  replitAuth builds
\* the URL with client.buildEndSessionUrl, which throws without the
\* endpoint: the request ends in an error, not in a redirect.  googleAuth
\* redirects to "/" then.
logoutResponse(v, q, hasEndSession) ==
  IF hasEndSession THEN Respond(q, 302, "end_session")
  ELSE IF v = "google" THEN Respond(q, 302, "/")
  ELSE NextErr(q, "endsession")

\* GET /api/logout: req.logout removes the user from the session and
\* regenerates it, which destroys the session the request presented; the
\* new session is empty and is not stored
Logout(v, r) ==
  /\ req[r].pc = "idle"
  /\ \E sid \in 0..(nextSid - 1), hasEndSession \in BOOLEAN :
       /\ mayPresent(r, sid)
       /\ req' = [req EXCEPT ![r] =
                 logoutResponse(v, [IdleReq EXCEPT !.route = "logout",
                                                   !.sid0 = sid],
                                hasEndSession)]
       /\ store' = IF sid # 0 THEN [store EXCEPT ![sid] = NoSession] ELSE store
  /\ UNCHANGED <<now, users, nextSid, issued, revokedUpTo, oidc,
               account, deploy, market>>

\* ------------------------------------------------------------- properties
\* req.user of a request that isAuthenticated passed on with subject u
SessionOf(u) == [EmptyUser EXCEPT !.claims.sub = u]

\* the request of slot r is answered with status st
Answer(q, st) == [Respond(q, st, "") EXCEPT !.handled = 1]

\* bodies of POST /api/properties: one that insertPropertySchema rejects,
\* and the parsed ones; agentId is an optional key of the schema
PostPropertyBodies ==
  {NoInput} \cup
  {[NoInput EXCEPT !.valid = TRUE, !.title = t, !.agentId = a] :
     t \in Titles, a \in {0} \cup UserIds}

\* bodies of PUT /api/properties/:id, parsed by the partial schema: every
\* key is optional
PutPropertyBodies ==
  {NoInput} \cup
  {[NoInput EXCEPT !.valid = TRUE, !.title = t, !.agentId = a] :
     t \in {"ABSENT"} \cup Titles, a \in {0} \cup UserIds}

\* the handler of POST /api/properties, id being the id the insert
\* generates: the request and the tables after it
postProperty(q, m, db, id, storageOk) ==
  LET userId == q.user.claims.sub IN
  IF ~storageOk THEN [q |-> Answer(q, 500), m |-> m]
  ELSE IF db[userId] = NoRow \/ db[userId].role \notin {"agent", "seller"}
  THEN [q |-> Answer(q, 403), m |-> m]
  ELSE IF ~q.input.valid THEN [q |-> Answer(q, 400), m |-> m]
  ELSE [q |-> [Answer(q, 201) EXCEPT !.param = id],
        m |-> [m EXCEPT !.props[id] =
                 [agentId |-> userId, title |-> q.input.title,
                  creator |-> userId]]]

PostProperty(r) ==
  /\ req[r].pc = "idle"
  /\ \E u \in UserIds, body \in PostPropertyBodies, id \in PropIds,
        storageOk \in BOOLEAN :
       LET q == [IdleReq EXCEPT !.route = "postProperty", !.user = SessionOf(u),
                                !.input = body,
                                !.io = IF storageOk THEN "ok" ELSE "error"]
           after == postProperty(q, market, users, id, storageOk) IN
       /\ market.props[id] = NoProp
       /\ req' = [req EXCEPT ![r] = after.q]
       /\ market' = after.m
  /\ UNCHANGED <<now, store, users, nextSid, issued, revokedUpTo, oidc,
               account, deploy>>

\* PUT and DELETE /api/properties/:id up to the write: the property is
\* looked up and its owner compared with the subject; PUT then parses the
\* body
ownerCheck(q, m) ==
  LET property == m.props[q.param] IN
  IF property = NoProp THEN Answer(q, 404)
  ELSE IF property.agentId # q.user.claims.sub THEN Answer(q, 403)
  ELSE IF q.route = "putProperty" /\ ~q.input.valid THEN Answer(q, 400)
  ELSE [q EXCEPT !.pc = "writing"]

PropertyLookup(r) ==
  /\ req[r].pc = "idle"
  /\ \E u \in UserIds, id \in PropIds, route \in {"putProperty", "deleteProperty"},
        body \in PutPropertyBodies, storageOk \in BOOLEAN :
       LET q == [IdleReq EXCEPT !.route = route, !.user = SessionOf(u),
                                !.param = id,
                                !.input = IF route = "putProperty" THEN body
                                          ELSE NoInput] IN
       /\ route = "deleteProperty" => body = NoInput
       /\ req' = [req EXCEPT ![r] =
                    IF storageOk THEN ownerCheck(q, market)
                    ELSE [Answer(q, 500) EXCEPT !.io = "error"]]
  /\ UNCHANGED <<now, store, users, nextSid, issued, revokedUpTo, oidc,
               account, deploy, market>>

\* storage.updateProperty: set {...updates, updatedAt} on the row of the id
updateProperty(props, id, updates) ==
  IF props[id] = NoProp THEN props
  ELSE [props EXCEPT
          ![id].title = IF updates.title = "ABSENT" THEN @ ELSE updates.title,
          ![id].agentId = IF updates.agentId = 0 THEN @ ELSE updates.agentId]

\* the write of PUT /api/properties/:id; a new agent_id must reference a
\* row of users
PutPropertyUpdate(r) ==
  /\ req[r].pc = "writing" /\ req[r].route = "putProperty"
  /\ \E storageOk \in BOOLEAN :
       LET q == req[r]
           refOk == q.input.agentId = 0 \/ users[q.input.agentId] # NoRow IN
       IF ~storageOk \/ ~refOk
       THEN /\ req' = [req EXCEPT ![r] = [Answer(q, 500) EXCEPT !.io = "error"]]
            /\ market' = market
       ELSE /\ req' = [req EXCEPT ![r] =
                         Answer(q, IF market.props[q.param] = NoProp
                                   THEN 404 ELSE 200)]
            /\ market' = [market EXCEPT
                            !.props = updateProperty(@, q.param, q.input)]
  /\ UNCHANGED <<now, store, users, nextSid, issued, revokedUpTo, oidc,
               account, deploy>>

\* property id is referenced by a message or a favorite
referenced(m, id) ==
  \/ \E msg \in m.msgs : msg.propertyId = id
  \/ \E fav \in m.favs : fav.propertyId = id

\* the write of DELETE /api/properties/:id; the delete of a row that is
\* still referenced fails
DeletePropertyDelete(r) ==
  /\ req[r].pc = "writing" /\ req[r].route = "deleteProperty"
  /\ \E storageOk \in BOOLEAN :
       LET q == req[r] IN
       IF ~storageOk \/ referenced(market, q.param)
       THEN /\ req' = [req EXCEPT ![r] = [Answer(q, 500) EXCEPT !.io = "error"]]
            /\ market' = market
       ELSE /\ req' = [req EXCEPT ![r] =
                         Answer(q, IF market.props[q.param] = NoProp
                                   THEN 404 ELSE 204)]
            /\ market' = [market EXCEPT !.props[q.param] = NoProp]
  /\ UNCHANGED <<now, store, users, nextSid, issued, revokedUpTo, oidc,
               account, deploy>>

\* ------------------------------------------------------------- messages
\* bodies of POST /api/messages: one that insertMessageSchema rejects, and
\* the parsed ones; senderId and recipientId are required keys, propertyId
\* may be missing (0)
MessageBodies ==
  {NoInput} \cup
  {[NoInput EXCEPT !.valid = TRUE, !.senderId = a, !.recipientId = b,
                   !.propertyId = p] :
     a \in UserIds, b \in UserIds, p \in {0} \cup PropIds}

\* a faulty handler that inserts the body as it was parsed
postMessageAsSent(q, m, storageOk) ==
  LET message == [propertyId |-> q.input.propertyId,
                  senderId |-> q.input.senderId,
                  recipientId |-> q.input.recipientId]
      refOk == message.propertyId = 0 \/ m.props[message.propertyId] # NoProp IN
  IF ~q.input.valid THEN [q |-> Answer(q, 400), m |-> m]
  ELSE IF ~storageOk \/ ~refOk
  THEN [q |-> [Answer(q, 500) EXCEPT !.io = "error"], m |-> m]
  ELSE [q |-> [Answer(q, 201) EXCEPT !.out = {message}],
        m |-> [m EXCEPT !.msgs = @ \cup {message}]]

\* the handler of POST /api/messages: the request and the tables after
\* it; the property a message names must exist
postMessage(q, m, storageOk) ==
  LET message == [propertyId |-> q.input.propertyId,
                  senderId |-> q.user.claims.sub,
                  recipientId |-> q.input.recipientId]
      refOk == message.propertyId = 0 \/ m.props[message.propertyId] # NoProp IN
  IF ~q.input.valid THEN [q |-> Answer(q, 400), m |-> m]
  ELSE IF ~storageOk \/ ~refOk
  THEN [q |-> [Answer(q, 500) EXCEPT !.io = "error"], m |-> m]
  ELSE [q |-> [Answer(q, 201) EXCEPT !.out = {message}],
        m |-> [m EXCEPT !.msgs = @ \cup {message}]]

PostMessage(r) ==
  /\ req[r].pc = "idle"
  /\ Cardinality(market.msgs) < MaxMsgs
  /\ \E u \in UserIds, body \in MessageBodies, storageOk \in BOOLEAN :
       LET q == [IdleReq EXCEPT !.route = "postMessage", !.user = SessionOf(u),
                                !.input = body]
           after == postMessage(q, market, storageOk) IN
       /\ req' = [req EXCEPT ![r] = after.q]
       /\ market' = after.m
  /\ UNCHANGED <<now, store, users, nextSid, issued, revokedUpTo, oidc,
               account, deploy>>

\* storage.getMessagesByProperty
getMessagesByProperty(msgs, propertyId) ==
  {msg \in msgs : msg.propertyId = propertyId}

\* a faulty handler that returns every message of the property
propertyMessagesUnfiltered(q, m) ==
  IF m.props[q.param] = NoProp THEN Answer(q, 404)
  ELSE [Answer(q, 200) EXCEPT !.out = getMessagesByProperty(m.msgs, q.param)]

\* the handler of GET /api/messages/property/:propertyId
propertyMessages(q, m) ==
  LET userId == q.user.claims.sub
      property == m.props[q.param] IN
  IF property = NoProp THEN Answer(q, 404)
  ELSE [Answer(q, 200) EXCEPT !.out =
          {msg \in getMessagesByProperty(m.msgs, q.param) :
             \/ msg.senderId = userId
             \/ msg.recipientId = userId
             \/ property.agentId = userId}]

GetPropertyMessages(r) ==
  /\ req[r].pc = "idle"
  /\ \E u \in UserIds, id \in PropIds, storageOk \in BOOLEAN :
       LET q == [IdleReq EXCEPT !.route = "propertyMessages",
                                !.user = SessionOf(u), !.param = id] IN
       req' = [req EXCEPT ![r] =
                 IF storageOk THEN propertyMessages(q, market)
                 ELSE [Answer(q, 500) EXCEPT !.io = "error"]]
  /\ UNCHANGED <<now, store, users, nextSid, issued, revokedUpTo, oidc,
               account, deploy, market>>

\* ------------------------------------------------------------- favorites
\* bodies of POST /api/favorites: one that insertFavoriteSchema rejects,
\* and the parsed ones; userId and propertyId are required keys
FavoriteBodies ==
  {NoInput} \cup
  {[NoInput EXCEPT !.valid = TRUE, !.userId = a, !.propertyId = p] :
     a \in UserIds, p \in PropIds}

\* storage.getFavorite: the rows of the pair
getFavorite(favs, userId, propertyId) ==
  {fav \in favs : fav.userId = userId /\ fav.propertyId = propertyId}

\* POST /api/favorites up to the end of the insert of storage.addFavorite:
\* insert ... on conflict do nothing returning; a pair already in the table
\* returns no row, and the handler goes on to read the existing one
insertFavorite(q, m, storageOk) ==
  LET row == [id |-> m.nextFav, userId |-> q.user.claims.sub,
              propertyId |-> q.input.propertyId] IN
  IF ~q.input.valid THEN [q |-> Answer(q, 400), m |-> m]
  ELSE IF ~storageOk \/ m.props[row.propertyId] = NoProp
  THEN [q |-> [Answer(q, 500) EXCEPT !.io = "error"], m |-> m]
  ELSE IF getFavorite(m.favs, row.userId, row.propertyId) # {}
  THEN [q |-> [q EXCEPT !.pc = "refetch"], m |-> m]
  ELSE [q |-> [Answer(q, 201) EXCEPT !.out = {row}],
        m |-> [m EXCEPT !.favs = @ \cup {row}, !.nextFav = @ + 1]]

PostFavorite(r) ==
  /\ req[r].pc = "idle"
  /\ market.nextFav <= MaxFav
  /\ \E u \in UserIds, body \in FavoriteBodies, storageOk \in BOOLEAN :
       LET q == [IdleReq EXCEPT !.route = "postFavorite", !.user = SessionOf(u),
                                !.input = body]
           after == insertFavorite(q, market, storageOk) IN
       /\ req' = [req EXCEPT ![r] = after.q]
       /\ market' = after.m
  /\ UNCHANGED <<now, store, users, nextSid, issued, revokedUpTo, oidc,
               account, deploy>>

\* the rest of storage.addFavorite after a conflict: the existing row is
\* read and returned; when there is none by now, addFavorite throws
FavoriteRefetch(r) ==
  /\ req[r].pc = "refetch"
  /\ \E storageOk \in BOOLEAN :
       LET q == req[r]
           existing == getFavorite(market.favs, q.user.claims.sub,
                                   q.input.propertyId) IN
       req' = [req EXCEPT ![r] =
                 IF ~storageOk THEN [Answer(q, 500) EXCEPT !.io = "error"]
                 ELSE IF existing = {}
                 THEN [Answer(q, 500) EXCEPT !.msg = "Failed to add favorite"]
                 ELSE [Answer(q, 201) EXCEPT !.out = existing]]
  /\ UNCHANGED <<now, store, users, nextSid, issued, revokedUpTo, oidc,
               account, deploy, market>>

\* DELETE /api/favorites/:propertyId with storage.removeFavorite
DeleteFavorite(r) ==
  /\ req[r].pc = "idle"
  /\ \E u \in UserIds, id \in PropIds, storageOk \in BOOLEAN :
       LET q == [IdleReq EXCEPT !.route = "deleteFavorite",
                                !.user = SessionOf(u), !.param = id]
           rows == getFavorite(market.favs, u, id) IN
       IF ~storageOk
       THEN /\ req' = [req EXCEPT ![r] = [Answer(q, 500) EXCEPT !.io = "error"]]
            /\ market' = market
       ELSE /\ req' = [req EXCEPT ![r] =
                         Answer(q, IF rows = {} THEN 404 ELSE 204)]
            /\ market' = [market EXCEPT !.favs = @ \ rows]
  /\ UNCHANGED <<now, store, users, nextSid, issued, revokedUpTo, oidc,
               account, deploy>>

\* ------------------------------------------------------------- system
\* the steps of request slot r
Request(v, r) ==
  \/ Arrive(r)
  \/ RefreshNoConfig(r)
  \/ RefreshFail(r)
  \/ RefreshOk(r)
  \/ RoleCheck(r)
  \/ Handler(r)
  \/ Finish(r)
  \/ CallbackArrive(r)
  \/ CallbackNoUser(r)
  \/ CallbackVerify(r)
  \/ CallbackRegen(r)
  \/ CallbackLogin(r)
  \/ CallbackSave(v, r)

\* The application as routes.ts wires it (server/replitAuth.ts), requests
\* on one session running concurrently; the user table changes by the
\* login upsert alone.
Next ==
  \/ \E r \in Reqs : Request("replit", r)
  \/ Tick
  \/ Revoke

Spec == Init /\ [][Next]_vars

\* The same application, one request at a time, with the role column
\* administered and rows deleted between any two steps.
NextRoles ==
  \/ Request("replit", 1)
  \/ Tick
  \/ Revoke
  \/ SetRole
  \/ deleteUser

SpecRoles == Init /\ [][NextRoles]_vars

\* One request at a time, with the profile route and the account changing
\* at the provider.
NextProfile ==
  \/ Request("replit", 1)
  \/ ArrivePatch(1)
  \/ PatchHandler(1)
  \/ Tick
  \/ ChangeProfile

SpecProfile == Init /\ [][NextProfile]_vars

\* One request at a time, with the profile route and rows deleted between
\* any two steps.
NextRows ==
  \/ Request("replit", 1)
  \/ ArrivePatch(1)
  \/ PatchHandler(1)
  \/ Tick
  \/ deleteUser

SpecRows == Init /\ [][NextRows]_vars

\* The application with logout, requests on one session running
\* concurrently.
NextLogout ==
  \/ \E r \in Reqs : Request("replit", r)
  \/ \E r \in Reqs : Logout("replit", r)
  \/ Tick
  \/ Revoke

SpecLogout == Init /\ [][NextLogout]_vars

\* GET /api/login and GET /api/callback under every deployment and on
\* every hostname, as far as the choice of the strategy: a code exchange
\* that was started fails
InitLogin == \E d \in Deployments : Started(d)

NextLogin ==
  \/ \E r \in Reqs : Login(r)
  \/ \E r \in Reqs : CallbackOn(r)
  \/ \E r \in Reqs : CallbackNoUser(r)
  \/ \E r \in Reqs : Finish(r)

SpecLogin == InitLogin /\ [][NextLogin]_vars

\* the roles the users of the marketplace start with
MarketRoles == {"buyer", "agent"}

\* The marketplace routes behind the gates: every user has a row, with a
\* role an administrator has set; the session store is not followed.
InitMarket ==
  \E roles \in [UserIds -> MarketRoles] :
    Booted([env |-> "production", domains |-> {"app.example"}],
           [u \in UserIds |-> [DefaultRow EXCEPT !.role = roles[u]]])

\* the property routes, one request at a time
NextMarket ==
  \/ PostProperty(1)
  \/ PropertyLookup(1)
  \/ PutPropertyUpdate(1)
  \/ DeletePropertyDelete(1)
  \/ Finish(1)

SpecMarket == InitMarket /\ [][NextMarket]_vars

\* the routes that create a record, one request at a time
NextCreate ==
  \/ PostProperty(1)
  \/ PostMessage(1)
  \/ PostFavorite(1)
  \/ FavoriteRefetch(1)
  \/ Finish(1)

SpecCreate == InitMarket /\ [][NextCreate]_vars

\* the message routes on the properties agents create, one request at a
\* time
NextMessages ==
  \/ PostProperty(1)
  \/ PostMessage(1)
  \/ GetPropertyMessages(1)
  \/ Finish(1)

SpecMessages == InitMarket /\ [][NextMessages]_vars

\* The favorites routes, requests running concurrently, on the properties
\* an agent creates.
NextFavorites ==
  \/ PostProperty(1)
  \/ \E r \in Reqs : PostFavorite(r)
  \/ \E r \in Reqs : FavoriteRefetch(r)
  \/ \E r \in Reqs : DeleteFavorite(r)
  \/ \E r \in Reqs : Finish(r)

SpecFavorites == InitMarket /\ [][NextFavorites]_vars

\* server/googleAuth.ts in the place of server/replitAuth.ts
NextGoogle ==
  \/ \E r \in Reqs : Request("google", r)
  \/ \E r \in Reqs : CallbackVerifyNoClaims(r)
  \/ Tick
  \/ Revoke

SpecGoogle == Init /\ [][NextGoogle]_vars

\* ------------------------------------------------------------- claims
\* what the gate must answer 401 to before it awaits anything
Must401(u, t) ==
  \/ u.k # "user"
  \/ u.expires_at = 0
  \/ (t > u.expires_at /\ u.refresh_token = 0)

MustRefresh(u, t) ==
  u.k = "user" /\ u.expires_at # 0 /\ t > u.expires_at /\ u.refresh_token # 0

Answered401(q) == q.pc = "done" /\ q.status = 401

PassedOn(q) == q.pc \in {"role", "handler"} /\ q.status = 0

\* the outcome of the gate, or of the two gates in a row, that a request
\* runs before it awaits
GateOutcome(q, t) ==
  /\ Answered401(q) <=> Must401(q.user, t)
  /\ (q.pc = "refreshing") <=> MustRefresh(q.user, t)
  /\ PassedOn(q) <=> (~Must401(q.user, t) /\ ~MustRefresh(q.user, t))

DeadNoRefresh(u, t) ==
  u.k = "user" /\ u.refresh_token = 0 /\ u.expires_at # 0 /\ t > u.expires_at

\* C2: once a session without a refresh token has expired, every gated
\* request on it is answered 401 and never reaches the handler, and the
\* stored tuple stays as it is until a login callback regenerates the
\* session.
C2_NoRefreshFailsClosed ==
  /\ [](\A r \in Reqs :
          (req[r].route \in GatedRoutes /\ DeadNoRefresh(req[r].user, now))
             => (Answered401(req[r]) /\ req[r].handled = 0 /\ req[r].refreshes = 0))
  /\ [][\A s \in Sids :
          DeadNoRefresh(store[s], now) =>
             \/ store'[s] = store[s]
             \/ /\ store'[s] = NoSession
                /\ \E r \in Reqs : req[r].pc = "cb_regen" /\ req[r].sid = s
                                   /\ req'[r].pc = "cb_login"
     ]_vars

C2_Witness ==
  \E r \in Reqs :
    /\ req[r].route \in GatedRoutes /\ Answered401(req[r])
    /\ req[r].sid # 0 /\ DeadNoRefresh(store[req[r].sid], now)
    /\ req[r].user = store[req[r].sid]

\* C3 (as claimed): a request on an expired session whose refresh the
\* provider accepts makes exactly one refresh call, over all the gates of
\* its chain, and leaves expires_at strictly greater than it found it.
C3_OneRefreshAndLaterExpiry ==
  \A r \in Reqs :
    (req[r].route \in GatedRoutes /\ req[r].rres = "ok")
       => (req[r].refreshes = 1 /\ req[r].user.expires_at > req[r].exp0)

\* a callback request past verify: its user is the identity being logged in
PastVerify(q) ==
  /\ q.route = "callback"
  /\ \/ q.pc \in {"cb_regen", "cb_login", "cb_save"}
     \/ q.pc = "done" /\ q.err \in {"regen", "login", "save", "none"}

\* C4: in the callback the user is logged in only on a regenerated
\* session: once logIn has run, and when the callback has redirected to
\* "/", the session id of the request is a new one, not the one the
\* browser presented, and the new identity is stored under no other id.
C4_LoginOnRegeneratedSession ==
  \A r \in Reqs :
    PastVerify(req[r]) =>
      /\ (req[r].dirty \/ (req[r].status = 302 /\ req[r].loc = "/"))
            => (req[r].sid # 0 /\ req[r].sid # req[r].sid0)
      /\ \A s \in Sids :
           (store[s].k = "user"
              /\ store[s].access_token = req[r].user.access_token)
             => (s = req[r].sid /\ s # req[r].sid0 /\ req[r].pc = "done")

C4_Witness ==
  \E r \in Reqs :
    /\ req[r].route = "callback" /\ req[r].pc = "done"
    /\ req[r].status = 302 /\ req[r].loc = "/"
    /\ req[r].sid0 # 0 /\ req[r].sid # req[r].sid0
    /\ store[req[r].sid] = req[r].user /\ store[req[r].sid0] = NoSession

\* C5 (as claimed): when regenerating, logging in or saving the session
\* fails in the callback, the request ends with a 500 and never with the
\* redirect to "/".
C5_CallbackStoreErrorIs500 ==
  \A r \in Reqs :
    (req[r].route = "callback" /\ req[r].pc = "done"
       /\ req[r].err \in {"regen", "login", "save"})
      => (req[r].status = 500 /\ req[r].loc # "/")

\* C6 (as claimed): a callback that yields no verified user, by an error
\* of the provider or the exchange or by a failed authentication, answers
\* with the redirect to /api/login.
C6_CallbackFailureRedirects ==
  \A r \in Reqs :
    (req[r].route = "callback" /\ req[r].pc = "done"
       /\ req[r].err \in {"exchange", "nouser"})
      => (req[r].status = 302 /\ req[r].loc = "/api/login")

\* C7 (as claimed): after a request was answered 401 because the provider
\* rejected its refresh, every later request on that session is answered
\* 401 too.
C7_RejectedRefreshStays401 ==
  \A r \in Reqs :
    (req[r].route \in GatedRoutes /\ req[r].late)
      => (req[r].pc = "refreshing" \/ Answered401(req[r]))

RequiredOf(route) == IF route = "agentOnly" THEN {"agent"} ELSE {"seller", "agent"}

\* the role a lookup of subject u yields at this moment
StoredRole(u) == IF users[u] = NoRow THEN "buyer" ELSE users[u].role

\* C9: requireRole decides by the role stored in the user row when it looks
\* it up, not by the claims of the session: a stored role in the allow-list
\* passes, any other is answered 403 with the allow-list and that role.
C9_RoleFromStorage ==
  [][\A r \in Reqs :
       LET q == req[r]
           n == req'[r]
           role == StoredRole(q.user.claims.sub) IN
       (q.pc = "role" /\ n.pc # "role" /\ n.io = "ok"
          /\ q.user.claims.sub \in Subs) =>
          IF role \in RequiredOf(q.route)
          THEN n.pc = "handler" /\ n.status = 0 /\ n.current = role
          ELSE /\ n.pc = "done" /\ n.status = 403 /\ n.handled = 0
               /\ n.required = RequiredOf(q.route) /\ n.current = role
  ]_vars

C9_Witness ==
  \E r \in Reqs :
    /\ req[r].route = "agentOnly" /\ req[r].pc = "handler"
    /\ req[r].current = "agent" /\ req[r].user.claims.role # "agent"

\* C10: in requireRole a subject without a user row counts as a buyer, and
\* a storage error in the lookup is answered 500 without the handler ever
\* running.
C10_MissingRowAndStorageError ==
  /\ [][\A r \in Reqs :
          LET q == req[r]
              n == req'[r] IN
          (q.pc = "role" /\ n.pc # "role") =>
             /\ n.io = "error" => (n.pc = "done" /\ n.status = 500 /\ n.handled = 0)
             /\ (n.io = "ok" /\ q.user.claims.sub \in Subs
                 /\ users[q.user.claims.sub] = NoRow) =>
                  IF "buyer" \in RequiredOf(q.route)
                  THEN n.pc = "handler" /\ n.status = 0
                  ELSE n.pc = "done" /\ n.status = 403 /\ n.current = "buyer"
                       /\ n.handled = 0
     ]_vars
  /\ [](\A r \in Reqs :
          req[r].err = "storage" => (req[r].status = 500 /\ req[r].handled = 0))

C10_Witness ==
  \E r \in Reqs :
    /\ req[r].route \in GatedRoutes /\ req[r].pc = "done" /\ req[r].status = 403
    /\ req[r].current = "buyer" /\ req[r].handled = 0
    /\ req[r].user.claims.sub \in Subs /\ users[req[r].user.claims.sub] = NoRow

\* the step in which verify has upserted the user of callback request r
Upserted(r) == req[r].pc = "cb_exchange" /\ req'[r].pc = "cb_regen"

\* C11: the upsert of a login never changes the role of an existing user,
\* whatever role the claims carry, and a user the login creates is a buyer;
\* no other row changes.
C11_LoginKeepsRole ==
  [][\A r \in Reqs :
       Upserted(r) =>
         LET u == req'[r].user.claims.sub IN
         /\ users'[u] # NoRow
         /\ users'[u].role = IF users[u] = NoRow THEN "buyer" ELSE users[u].role
         /\ \A o \in Subs \ {u} : users'[o] = users[o]
  ]_vars

C11_Witness ==
  \E r \in Reqs :
    /\ req[r].route = "callback" /\ req[r].pc = "done"
    /\ req[r].status = 302 /\ req[r].loc = "/"
    /\ req[r].user.claims.role = "admin"
    /\ users[req[r].user.claims.sub].role = "agent"
    /\ req[r].sid0 # 0

\* the step in which the handler of PATCH /api/auth/user answers request r
Patched(r) ==
  req[r].route = "patchUser" /\ req[r].pc = "handler" /\ req'[r].pc = "done"

\* a body value the profile update accepts: a string or null
Accepted(v) == v \in {"hi", "admin", "NULL"}

\* C12: PATCH /api/auth/user changes at most the phone and bio columns of
\* the caller's own row, each to the accepted value the body gives for it;
\* role and email of the row and every other row stay as they were, whatever
\* else the body holds.
C12_PatchOnlyPhoneAndBio ==
  [][\A r \in Reqs :
       (Patched(r) /\ req[r].user.claims.sub \in Subs) =>
         LET u == req[r].user.claims.sub
             b == req[r].body
             old == users[u]
             new == users'[u] IN
         /\ \A o \in Subs \ {u} : users'[o] = users[o]
         /\ req'[r].status # 200 => new = old
         /\ (old # NoRow /\ req'[r].status = 200) =>
              /\ new.role = old.role
              /\ new.email = old.email
              /\ new.phone = IF Accepted(b.phone) THEN b.phone ELSE old.phone
              /\ new.bio = IF Accepted(b.bio) THEN b.bio ELSE old.bio
  ]_vars

C12_Witness ==
  \E r \in Reqs :
    /\ req[r].route = "patchUser" /\ req[r].pc = "done" /\ req[r].status = 200
    /\ req[r].body.role = "admin" /\ req[r].body.bio = "hi"
    /\ req[r].body.phone = "NUM"
    /\ users[req[r].user.claims.sub].bio = "hi"
    /\ users[req[r].user.claims.sub].phone = "NULL"
    /\ users[req[r].user.claims.sub].role = "buyer"

\* C13: PATCH /api/auth/user with a body that holds no phone or bio key
\* with a string or null value is answered 400 "No valid fields to update",
\* and no such request is answered 200 or writes the user table.
C13_EmptyPatchIs400 ==
  [][\A r \in Reqs :
       (Patched(r) /\ ~Accepted(req[r].body.phone) /\ ~Accepted(req[r].body.bio)) =>
         /\ req'[r].status # 200
         /\ users' = users
         /\ (req[r].body.kind = "object" /\ req[r].user.claims.sub \in Subs) =>
              /\ req'[r].status = 400
              /\ req'[r].msg = "No valid fields to update"
  ]_vars

C13_Witness ==
  \E r \in Reqs :
    /\ req[r].route = "patchUser" /\ req[r].pc = "done" /\ req[r].status = 400
    /\ req[r].msg = "No valid fields to update"
    /\ req[r].body.role = "admin" /\ req[r].body.phone = "NUM"
    /\ req[r].body.bio = "ABSENT"
    /\ users[req[r].user.claims.sub] # NoRow

\* C14 (as claimed): a successful refresh that brings claims upserts the
\* user once, as a login does, so the user row then shows the profile of the
\* refreshed claims.
C14_RefreshUpsertsUser ==
  \A r \in Reqs :
    (req[r].route \in GatedRoutes /\ req[r].rres = "ok"
       /\ req[r].user.claims # NoClaims)
      => /\ req[r].upserts = 1
         /\ users[req[r].user.claims.sub].email = req[r].user.claims.email

\* the callback of request r has logged the user in and redirected to "/"
LoggedIn(q) ==
  /\ q.route = "callback" /\ q.pc = "done"
  /\ q.status = 302 /\ q.loc = "/" /\ q.err = "none"

\* C15 (as claimed): after a successful login callback the session has an
\* expires_at, the exp claim or else an expiry the server computes, so the
\* session is valid: a gated request at that moment would not be answered
\* 401.
C15_LoginSetsExpiry ==
  \A r \in Reqs :
    LoggedIn(req[r]) =>
      /\ req[r].user.expires_at # 0
      /\ isAuthenticated(req[r].user, now) = "next"

\* the tuple of a session user is that of one token response, the one
\* numbered by its access token
OfOneResponse(u) ==
  /\ u.access_token \in 1..issued
  /\ u.refresh_token \in {0, u.access_token}
  /\ u.claims = NoClaims \/ u.claims.jti = u.access_token
  /\ u.expires_at = u.claims.exp

C17_LogoutStays401 ==
  \A r \in Reqs :
    (req[r].route \in GatedRoutes /\ req[r].loggedOut) => Answered401(req[r])

\* C18 (as claimed): GET /api/logout always ends in a redirect, to the
\* provider's end-session endpoint or to the local fallback.
C18_LogoutAlwaysRedirects ==
  \A r \in Reqs :
    (req[r].route = "logout" /\ req[r].pc = "done")
      => (req[r].status = 302 /\ req[r].loc \in {"end_session", "/"})

\* C19 (as claimed): in production GET /api/login selects, for every
\* hostname, the strategy named after the hostname of the request, and the
\* strategies registered are those of REPLIT_DOMAINS alone.
C19_NoFallbackInProduction ==
  \A r \in Reqs :
    (req[r].route = "login" /\ req[r].pc = "done" /\ deploy.env = "production")
      => /\ req[r].strategy = req[r].host
         /\ registered(deploy) = deploy.domains

\* C20 (as claimed): a request whose refresh found the issuer unreachable
\* on re-discovery is answered with a 500-class error.
C20_DiscoveryFailureIs500 ==
  \A r \in Reqs :
    (req[r].pc = "done" /\ req[r].rres = "nodiscovery")
      => req[r].status \in 500..599

\* C21: an anonymous GET /api/auth/user is answered 401 without the handler
\* running; a login of a subject without a user row creates the row with
\* role buyer; and the handler of GET /api/auth/user, the lookup succeeding,
\* answers 200 with the record whose id is the subject of the session when
\* the row exists and 404 when it does not.
C21_AuthUserEndToEnd ==
  /\ [](\A r \in Reqs :
          (req[r].route = "authUser" /\ req[r].user.k # "user")
            => (Answered401(req[r]) /\ req[r].handled = 0))
  /\ [][\A r \in Reqs :
          LET q == req[r]
              n == req'[r]
              u == q.user.claims.sub IN
          /\ (Upserted(r) /\ users[n.user.claims.sub] = NoRow) =>
               users'[n.user.claims.sub] =
                 [DefaultRow EXCEPT !.email = n.user.claims.email]
          /\ (q.route = "authUser" /\ q.pc = "handler" /\ n.pc = "done"
              /\ n.io = "ok" /\ u \in Subs) =>
               IF users[u] = NoRow
               THEN n.status = 404 /\ n.sent = 0
               ELSE n.status = 200 /\ n.sent = u
     ]_vars

C21_Witness ==
  \E r \in Reqs :
    /\ req[r].route = "authUser" /\ req[r].pc = "done" /\ req[r].status = 200
    /\ req[r].sent = req[r].user.claims.sub
    /\ req[r].sid = 1 /\ store[1] = req[r].user
    /\ users[req[r].sent] = [DefaultRow EXCEPT !.email = 1]

\* the statuses with which isAuthenticated and requireRole answer
GateStatuses == {401, 403, 500}

\* C22: on a protected route the chain of isAuthenticated and requireRole
\* produces one response and invokes the handler at most once: a request a
\* gate answers (401, 403 or 500) never reaches the handler, the handler
\* starts on a request nobody has answered, with the tuple of a granted
\* refresh already in its session, and a response once sent stays.
C22_OneResponseAtMostOneHandler ==
  /\ [](\A r \in Reqs :
          LET q == req[r] IN
          q.route \in GatedRoutes =>
            /\ q.handled <= 1
            /\ (q.pc = "done") <=> (q.status # 0)
            /\ (q.pc = "done" /\ q.handled = 0) => q.status \in GateStatuses
            /\ q.pc = "handler" =>
                 /\ q.handled = 0
                 /\ q.rres \in {"none", "ok"}
                 /\ q.rres = "ok" => (q.dirty /\ OfOneResponse(q.user)))
  /\ [][\A r \in Reqs :
          LET q == req[r]
              n == req'[r] IN
          (q.route \in GatedRoutes /\ n # q) =>
            /\ (q.pc \in {"refreshing", "role"} /\ n.pc = "done") =>
                 (n.handled = 0 /\ n.status \in GateStatuses)
            /\ (q.pc = "refreshing" /\ n.rres = "ok") =>
                 (n.user.access_token = issued' /\ n.dirty)
            /\ q.pc = "handler" => (n.pc = "done" /\ n.handled = 1)
            /\ q.pc = "done" => n = IdleReq
     ]_vars

C22_Witness ==
  \E r \in Reqs :
    /\ req[r].route = "createProperty" /\ req[r].pc = "done"
    /\ req[r].status = 201 /\ req[r].handled = 1
    /\ req[r].rres = "ok" /\ req[r].refreshes = 1
    /\ store[req[r].sid] = req[r].user

\* the tuple of session user u is whole: all of it is of the token response
\* its access token numbers
WholeTuple(u) ==
  /\ u.access_token \in 1..issued
  /\ u.refresh_token # 0 => u.refresh_token = u.access_token
  /\ u.claims # NoClaims => u.claims.jti = u.access_token
  /\ u.expires_at = u.claims.exp

\* request slots a and b ran on session s at the same time and each had
\* its own refresh granted
BothRefreshed(a, b, s) ==
  /\ a # b
  /\ req[a].route \in GatedRoutes /\ req[b].route \in GatedRoutes
  /\ req[a].sid = s /\ req[b].sid = s
  /\ req[a].rres = "ok" /\ req[b].rres = "ok"
  /\ req[a].user.access_token # req[b].user.access_token

\* C23: requests running concurrently on one expired session are not
\* serialized, each may have its own refresh granted; the stored session is
\* then the whole tuple of the request that saved last, and never holds
\* fields of two token responses.
C23_LastWriteWins ==
  /\ [](\A s \in Sids : store[s].k = "user" => WholeTuple(store[s]))
  /\ [][\A s \in Sids :
          (store'[s] # store[s] /\ store'[s].k = "user") =>
            \E r \in Reqs :
              /\ req[r].pc # "done" /\ req'[r].pc = "done"
              /\ req'[r].sid = s /\ req'[r].dirty
              /\ store'[s] = req'[r].user
     ]_vars

C23_Witness ==
  \E a \in Reqs, b \in Reqs, s \in Sids :
    /\ BothRefreshed(a, b, s)
    /\ req[a].pc = "done" /\ req[b].pc = "done"
    /\ req[a].user.access_token < req[b].user.access_token
    /\ store[s] = req[a].user

\* C24 (as claimed): whatever token response a granted refresh brings, the
\* session holds a refresh token and an expires_at after it.
C24_RefreshKeepsRefreshable ==
  \A r \in Reqs :
    (req[r].route \in GatedRoutes /\ req[r].rres = "ok")
      => (req[r].user.refresh_token # 0 /\ req[r].user.expires_at # 0)

\* C25 (as claimed): on every hostname for which GET /api/login selects a
\* registered strategy, GET /api/callback authenticates with that same
\* strategy, so the login can be completed on the hostname it began on.
C25_CallbackUsesLoginStrategy ==
  \A r \in Reqs :
    (req[r].route = "callback" /\ req[r].host # "none"
       /\ selectStrategy(deploy, req[r].host) \in registered(deploy))
      => /\ req[r].strategy = selectStrategy(deploy, req[r].host)
         /\ req[r].strategy \in registered(deploy)

\* the step in which a marketplace handler answers request r
Answers(r) == req[r].pc # "done" /\ req'[r].pc = "done"

\* C26 (as claimed): PUT and DELETE /api/properties/:id answer 404 for a
\* property that does not exist and 403, leaving the property as it is, to
\* a subject who is not its agentId; and the agentId of a property is
\* always the subject that created it.
C26_OnlyOwnerChangesProperty ==
  /\ [](\A p \in PropIds :
          market.props[p] # NoProp
            => market.props[p].agentId = market.props[p].creator)
  /\ [][\A r \in Reqs :
          LET n == req'[r]
              property == market.props[n.param] IN
          (Answers(r) /\ n.route \in {"putProperty", "deleteProperty"}
             /\ n.io # "error") =>
            /\ property = NoProp => n.status = 404
            /\ (property # NoProp /\ property.agentId # n.user.claims.sub)
                 => (n.status = 403 /\ market' = market)
     ]_vars

\* C27: a record the API creates carries the subject of the session that
\* created it, whatever its body names: a created property has it as
\* agentId, a created message as senderId, a created favorite as userId,
\* and no row enters the three tables in any other way.
C27_CreatedRecordsCarryCaller ==
  [][/\ \A r \in Reqs :
          LET n == req'[r]
              u == n.user.claims.sub IN
          (Answers(r) /\ n.status = 201) =>
            /\ n.route = "postProperty" =>
                 (market.props[n.param] = NoProp
                    /\ market'.props[n.param].agentId = u)
            /\ n.route = "postMessage" =>
                 (n.out # {} /\ n.out \subseteq market'.msgs
                    /\ \A msg \in n.out : msg.senderId = u)
            /\ n.route = "postFavorite" =>
                 (n.out # {} /\ n.out \subseteq market'.favs
                    /\ \A fav \in n.out : fav.userId = u)
     /\ \A p \in PropIds :
          (market.props[p] = NoProp /\ market'.props[p] # NoProp) =>
            \E r \in Reqs : Answers(r)
               /\ market'.props[p].agentId = req'[r].user.claims.sub
     /\ \A msg \in market'.msgs \ market.msgs :
          \E r \in Reqs : Answers(r) /\ msg.senderId = req'[r].user.claims.sub
     /\ \A fav \in market'.favs \ market.favs :
          \E r \in Reqs : Answers(r) /\ fav.userId = req'[r].user.claims.sub
  ]_vars

C27_Witness ==
  \E r \in Reqs :
    /\ req[r].route = "postFavorite" /\ req[r].pc = "done" /\ req[r].status = 201
    /\ req[r].input.userId # req[r].user.claims.sub
    /\ \E fav \in market.favs : fav.userId = req[r].user.claims.sub
    /\ \A fav \in market.favs : fav.userId # req[r].input.userId
    /\ \E p \in PropIds : market.props[p].agentId \in UserIds
    /\ \E msg \in market.msgs : msg.senderId # req[r].user.claims.sub

\* C29: every message GET /api/messages/property/:propertyId returns is a
\* stored message of that property of which the caller is the sender or the
\* recipient, unless the caller is the agentId of the property; a message
\* between two other users about a property of another user is never
\* returned.
C29_PropertyMessagesOfCaller ==
  [][\A r \in Reqs :
       LET n == req'[r]
           u == n.user.claims.sub IN
       (Answers(r) /\ n.route = "propertyMessages") =>
         /\ n.out # {} => n.status = 200
         /\ \A msg \in n.out :
              /\ msg \in market.msgs /\ msg.propertyId = n.param
              /\ \/ msg.senderId = u
                 \/ msg.recipientId = u
                 \/ market.props[n.param].agentId = u
  ]_vars

C29_Witness ==
  \E r \in Reqs :
    LET u == req[r].user.claims.sub IN
    /\ req[r].route = "propertyMessages" /\ req[r].pc = "done"
    /\ req[r].status = 200 /\ req[r].out # {}
    /\ market.props[req[r].param].agentId # u
    /\ \E msg \in market.msgs \ req[r].out :
         /\ msg.propertyId = req[r].param
         /\ msg.senderId # u /\ msg.recipientId # u

\* C30 (as claimed): with add and remove requests interleaving, the table
\* holds at most one favorite per user and property; an add that finds the
\* pair in the table answers with the existing row and leaves the table as
\* it is; and a remove of a pair not in the table answers 404 and changes
\* nothing.
C30_FavoritesAreASet ==
  /\ [](\A a \in market.favs, b \in market.favs :
          (a.userId = b.userId /\ a.propertyId = b.propertyId) => a = b)
  /\ [][\A r \in Reqs :
          LET q == req[r]
              n == req'[r] IN
          /\ (q.pc = "refetch" /\ n.pc = "done" /\ n.io # "error") =>
               /\ n.status = 201 /\ market' = market
               /\ n.out = getFavorite(market.favs, q.user.claims.sub,
                                      q.input.propertyId)
               /\ n.out # {}
          /\ (Answers(r) /\ n.route = "deleteFavorite" /\ n.io # "error"
              /\ getFavorite(market.favs, n.user.claims.sub, n.param) = {}) =>
               (n.status = 404 /\ market' = market)
     ]_vars

\* the ids of the rows of a users table
Ids(db) == {u \in UserIds : db[u] # NoRow}

\* C28 (as claimed): PATCH /api/auth/user never creates a user record: a
\* request on a session whose subject has no record leaves the set of user
\* ids as it was.
C28_PatchCreatesNoUser ==
  [][\A r \in Reqs : Patched(r) => Ids(users') = Ids(users)]_vars

====
